---- MODULE Spec2Model ----
(***************************************************************************)
(* Model of threatexchange/exchanges/impl/fb_threatexchange_api.py:        *)
(* parsing of ThreatExchange updates into indicator records, the merge of  *)
(* records, the projection onto signal types and the delta fetch loop.     *)
(***************************************************************************)
EXTENDS Integers, Sequences, FiniteSets, TLC

VARIABLES
    te_json,        \* the ThreatUpdateJSON handed to from_threatexchange_json
    parsed,         \* its result: NotRun, NoRecord or a record
    heap,           \* the FBThreatExchangeIndicatorRecord objects: heap[ref]
                    \* is the opinions list of the record with reference ref
    merge_call,     \* the last call of merge: self, other, the heap before it
    signal_types,   \* the signal_types handed to naive_convert_to_signal_type
    fetched,        \* the fetched mapping: (type, indicator) -> ref, 0 for None
    input_heap,     \* the heap when naive_convert_to_signal_type was called
    projections,    \* the number of calls of naive_convert_to_signal_type
    ret,            \* its result: signal type -> signal string -> ref
    merge_log,      \* the calls of _merge_record_for_signal_type that gave
                    \* the output a record or merged one into it
    stored,         \* the checkpoint the caller of fetch_iter holds: the one
                    \* of the last delta it was given, None before the first
    ever_fetched,   \* whether the cursor has ever delivered an update
    gen,            \* the generator of the current call of fetch_iter:
                    \* "none", "created", "suspended" (at the yield), "finished"
    checkpoint,     \* the checkpoint argument of the current call
    batch,          \* its local batch
    highest_time,   \* its local highest_time
    delta,          \* the delta it yielded last, NoDelta before the first
    _api,           \* self._api of the exchange API object: NoApi for None
    outcome,        \* how the last operation on the API object ended
    now,            \* time.time(), in ticks: TicksPerSecond to the second
    last_fetch_time,\* last_fetch_time of a checkpoint
    stale           \* the last call of its is_stale: when, and the result

parse_vars == <<te_json, parsed>>
project_vars == <<signal_types, fetched, input_heap, projections, ret, merge_log>>
fetch_vars == <<stored, ever_fetched, gen, checkpoint, batch,
                highest_time, delta>>
api_vars == <<_api, outcome>>
stale_vars == <<now, last_fetch_time, stale>>
vars == <<te_json, parsed, heap, merge_call, signal_types, fetched, input_heap,
          projections, ret, merge_log, stored, ever_fetched, gen,
          checkpoint, batch, highest_time, delta, _api, outcome, now,
          last_fetch_time, stale>>

----------------------------------------------------------------------------
(* Bounds of the model *)

MaxDescriptors == 2
MaxReactions == 2
MaxOpinions == 2
MaxMergedLen == 4
MaxSignalTypes == 2
MaxFetched == 2
MaxProjections == 1
MaxBatch == 2
MaxTime == 2
MaxApiBatch == 1
MaxLastFetchTime == 4
MaxAgeDelta == 3
MaxNow == 2
MaxApiNow == 0
MaxSyncNow == 0
TicksPerSecond == 2

----------------------------------------------------------------------------
(* Values *)

\* Python's None where a record is optional
NoRecord == [kind |-> "None"]
\* the result slot before the call has run
NotRun == [kind |-> "NotRun"]

Record(ops) == [kind |-> "Record", opinions |-> ops]

POSITIVE_CLASS == "POSITIVE_CLASS"
NEGATIVE_CLASS == "NEGATIVE_CLASS"
INVESTIGATION_SEED == "INVESTIGATION_SEED"

REACTION_DESCRIPTOR_ID == -1

FBThreatExchangeOpinion(owner, category, tags, descriptor_id) ==
    [owner |-> owner, category |-> category, tags |-> tags,
     descriptor_id |-> descriptor_id]

----------------------------------------------------------------------------
(* Strings: tags are Python str; TagText gives their characters *)

Tags == {"", "a", "ab", "xab"}

TagText(t) ==
    CASE t = "" -> <<>>
      [] t = "a" -> <<"a">>
      [] t = "ab" -> <<"a", "b">>
      [] t = "xab" -> <<"x", "a", "b">>

CharOrd(c) ==
    CASE c = "a" -> 97
      [] c = "b" -> 98
      [] c = "x" -> 120

\* Python: s in t, for two str
IsSubstring(s, t) ==
    LET cs == TagText(s)
        ct == TagText(t)
    IN \E i \in 0..(Len(ct) - Len(cs)) :
           \A j \in 1..Len(cs) : ct[i + j] = cs[j]

RECURSIVE SeqLess(_, _)
SeqLess(cs, ct) ==
    IF cs = <<>> THEN ct # <<>>
    ELSE IF ct = <<>> THEN FALSE
    ELSE IF CharOrd(Head(cs)) # CharOrd(Head(ct))
         THEN CharOrd(Head(cs)) < CharOrd(Head(ct))
         ELSE SeqLess(Tail(cs), Tail(ct))

\* Python: s < t, for two str
StrLess(s, t) == SeqLess(TagText(s), TagText(t))

RECURSIVE InsertSorted(_, _)
InsertSorted(x, xs) ==
    IF xs = <<>> THEN <<x>>
    ELSE IF StrLess(x, Head(xs)) THEN <<x>> \o xs
    ELSE <<Head(xs)>> \o InsertSorted(x, Tail(xs))

\* Python: sorted(xs), for a list of str
RECURSIVE Sorted(_)
Sorted(xs) ==
    IF xs = <<>> THEN <<>>
    ELSE InsertSorted(xs[Len(xs)], Sorted(SubSeq(xs, 1, Len(xs) - 1)))

----------------------------------------------------------------------------
(* Python dict: insertion-ordered, as a sequence of [k, v] *)

DictHas(d, k) == \E i \in 1..Len(d) : d[i].k = k

\* DictSet that adds an item even when the key is there
DictSet_Append(d, k, v) == Append(d, [k |-> k, v |-> v])

\* d[k] = v
DictSet(d, k, v) ==
    IF DictHas(d, k)
    THEN [i \in 1..Len(d) |-> IF d[i].k = k THEN [k |-> k, v |-> v] ELSE d[i]]
    ELSE Append(d, [k |-> k, v |-> v])

DictValues(d) == [i \in 1..Len(d) |-> d[i].v]

DictGet(d, k) == d[CHOOSE i \in 1..Len(d) : d[i].k = k].v

----------------------------------------------------------------------------
(* FBThreatExchangeIndicatorRecord.from_threatexchange_json *)

\* tags = td_json.get("tags", []); a dict is flattened to its sorted texts
DescriptorTags(td_json) ==
    IF td_json.tags.form = "absent" THEN <<>>
    ELSE IF td_json.tags.form = "dict" THEN Sorted(td_json.tags.data)
    ELSE td_json.tags.data

StatusCategory(status) ==
    IF status = "MALICIOUS" THEN POSITIVE_CLASS
    ELSE IF status = "NON_MALICIOUS" THEN NEGATIVE_CLASS
    ELSE INVESTIGATION_SEED

\* ApplyReaction with DISAGREE_WITH_TAGS recorded even over an earlier reaction
ApplyReaction_DisagreeOverwrites(implicit_opinions, reaction) ==
    LET rxn == reaction.key
        owner == reaction.value
    IN IF rxn = "HELPFUL"
       THEN DictSet(implicit_opinions, owner, POSITIVE_CLASS)
       ELSE IF rxn = "DISAGREE_WITH_TAGS"
       THEN DictSet(implicit_opinions, owner, NEGATIVE_CLASS)
       ELSE implicit_opinions

\* ApplyReaction with HELPFUL recorded only for an owner not seen yet
ApplyReaction_FirstSeen(implicit_opinions, reaction) ==
    LET rxn == reaction.key
        owner == reaction.value
    IN IF rxn = "HELPFUL" /\ ~DictHas(implicit_opinions, owner)
       THEN DictSet(implicit_opinions, owner, POSITIVE_CLASS)
       ELSE IF rxn = "DISAGREE_WITH_TAGS" /\ ~DictHas(implicit_opinions, owner)
       THEN DictSet(implicit_opinions, owner, NEGATIVE_CLASS)
       ELSE implicit_opinions

\* one reaction of a descriptor, applied to implicit_opinions
ApplyReaction(implicit_opinions, reaction) ==
    LET rxn == reaction.key
        owner == reaction.value
    IN IF rxn = "HELPFUL"
       THEN DictSet(implicit_opinions, owner, POSITIVE_CLASS)
       ELSE IF rxn = "DISAGREE_WITH_TAGS" /\ ~DictHas(implicit_opinions, owner)
       THEN DictSet(implicit_opinions, owner, NEGATIVE_CLASS)
       ELSE implicit_opinions

RECURSIVE ApplyReactions(_, _)
ApplyReactions(implicit_opinions, reactions) ==
    IF reactions = <<>> THEN implicit_opinions
    ELSE ApplyReactions(ApplyReaction(implicit_opinions, Head(reactions)),
                        Tail(reactions))

\* the loop over te_json.raw_json["descriptors"]["data"]
RECURSIVE ParseDescriptors(_, _)
ParseDescriptors(dicts, descriptors) ==
    IF descriptors = <<>> THEN dicts
    ELSE LET td_json == Head(descriptors)
             opinion == FBThreatExchangeOpinion(
                            td_json.owner, StatusCategory(td_json.status),
                            DescriptorTags(td_json), td_json.id)
         IN ParseDescriptors(
                [explicit |-> DictSet(dicts.explicit, td_json.owner, opinion),
                 implicit |-> ApplyReactions(dicts.implicit, td_json.reactions)],
                Tail(descriptors))

\* AddImplicit without the test for an explicit opinion of the owner
RECURSIVE AddImplicit_NoSkip(_, _)
AddImplicit_NoSkip(explicit_opinions, implicit_items) ==
    IF implicit_items = <<>> THEN explicit_opinions
    ELSE LET owner_id == Head(implicit_items).k
             category == Head(implicit_items).v
         IN AddImplicit_NoSkip(
                DictSet(explicit_opinions, owner_id,
                        FBThreatExchangeOpinion(owner_id, category, <<>>,
                                                REACTION_DESCRIPTOR_ID)),
                Tail(implicit_items))

\* the loop over implicit_opinions.items()
RECURSIVE AddImplicit(_, _)
AddImplicit(explicit_opinions, implicit_items) ==
    IF implicit_items = <<>> THEN explicit_opinions
    ELSE LET owner_id == Head(implicit_items).k
             category == Head(implicit_items).v
         IN AddImplicit(
                IF DictHas(explicit_opinions, owner_id) THEN explicit_opinions
                ELSE DictSet(explicit_opinions, owner_id,
                             FBThreatExchangeOpinion(owner_id, category, <<>>,
                                                     REACTION_DESCRIPTOR_ID)),
                Tail(implicit_items))

\* from_threatexchange_json without the guard for an update left with no
\* opinion
from_threatexchange_json_KeepEmpty(u) ==
    IF u.should_delete THEN NoRecord
    ELSE LET dicts == ParseDescriptors([explicit |-> <<>>, implicit |-> <<>>],
                                       u.descriptors)
             explicit_opinions == AddImplicit(dicts.explicit, dicts.implicit)
         IN Record(DictValues(explicit_opinions))

from_threatexchange_json(u) ==
    IF u.should_delete THEN NoRecord
    ELSE LET dicts == ParseDescriptors([explicit |-> <<>>, implicit |-> <<>>],
                                       u.descriptors)
             explicit_opinions == AddImplicit(dicts.explicit, dicts.implicit)
         IN IF explicit_opinions = <<>> THEN NoRecord
            ELSE Record(DictValues(explicit_opinions))

----------------------------------------------------------------------------
(* Inputs of from_threatexchange_json *)

Owners == {10, 20}
ReactionKeys == {"HELPFUL", "DISAGREE_WITH_TAGS", "SAW_THIS_TOO"}
\* the status and the tags of a descriptor: a malicious one with a plain tag
\* list, a non-malicious one with the nested tag structure, one of another
\* status without tags
DescriptorKinds ==
    {[status |-> "MALICIOUS", tags |-> [form |-> "list", data |-> <<"ab">>]],
     [status |-> "NON_MALICIOUS",
      tags |-> [form |-> "dict", data |-> <<"xab", "a">>]],
     [status |-> "UNKNOWN", tags |-> [form |-> "absent", data |-> <<>>]]}

\* a reaction and the position of the descriptor that carries it
PlacedReactions == [key : ReactionKeys, value : Owners, at : 1..MaxDescriptors]

DescriptorHeads == [owner : Owners, kind : DescriptorKinds]

\* the reactions placed on the descriptor at position i, in their order
ReactionsAt(placed, i) ==
    LET mine == SelectSeq(placed, LAMBDA r : r.at = i)
    IN [j \in 1..Len(mine) |-> [key |-> mine[j].key, value |-> mine[j].value]]

\* the raw update: the descriptor at position i has id i
RawUpdate(should_delete, heads, placed) ==
    [should_delete |-> should_delete,
     descriptors |->
        [i \in 1..Len(heads) |->
            [id |-> i, owner |-> heads[i].owner, status |-> heads[i].kind.status,
             tags |-> heads[i].kind.tags, reactions |-> ReactionsAt(placed, i)]]]

----------------------------------------------------------------------------
(* Parsing one update *)

\* the values of the variables an operation does not use
EmptyUpdate == [should_delete |-> FALSE, descriptors |-> <<>>]
NoCall == [self |-> 0, other |-> 0, before |-> <<>>]
NoCheckpoint == [kind |-> "None"]
NoDelta == [kind |-> "NoDelta"]
NoApi == [kind |-> "None"]
NoOutcome == [op |-> "none", args |-> <<>>, result |-> [kind |-> "None"]]
ParseIdle == te_json = EmptyUpdate /\ parsed = NotRun
HeapIdle == heap = <<>> /\ merge_call = NoCall
ProjectIdle ==
    /\ signal_types = <<>>
    /\ fetched = <<>>
    /\ input_heap = <<>>
    /\ projections = 0
    /\ ret = <<>>
    /\ merge_log = <<>>
FetchIdle ==
    /\ stored = NoCheckpoint
    /\ ever_fetched = FALSE
    /\ gen = "none"
    /\ checkpoint = NoCheckpoint
    /\ batch = <<>>
    /\ highest_time = 0
    /\ delta = NoDelta

ApiIdle == _api = NoApi /\ outcome = NoOutcome
StaleIdle == now = 0 /\ last_fetch_time = 0 /\ stale = NotRun

\* an update of at most MaxDescriptors descriptors carrying at most
\* MaxReactions reactions in all
InitParse ==
    /\ HeapIdle
    /\ ProjectIdle
    /\ FetchIdle
    /\ ApiIdle
    /\ StaleIdle
    /\ \E should_delete \in BOOLEAN, n \in 0..MaxDescriptors, m \in 0..MaxReactions :
         \E heads \in [1..n -> DescriptorHeads], placed \in [1..m -> PlacedReactions] :
            /\ \A j \in 1..m : placed[j].at <= n
            /\ \A j \in 1..(m - 1) : placed[j].at <= placed[j + 1].at
            /\ te_json = RawUpdate(should_delete, heads, placed)
    /\ parsed = NotRun

Parse ==
    /\ parsed = NotRun
    /\ parsed' = from_threatexchange_json(te_json)
    /\ UNCHANGED <<te_json, heap, merge_call, project_vars, fetch_vars,
                   api_vars, stale_vars>>

NextParse == Parse

SpecParse == InitParse /\ [][NextParse]_vars

----------------------------------------------------------------------------
(* Properties of from_threatexchange_json *)

\* all reactions of the update, in parse order
RECURSIVE AllReactions(_)
AllReactions(descriptors) ==
    IF descriptors = <<>> THEN <<>>
    ELSE Head(descriptors).reactions \o AllReactions(Tail(descriptors))

\* the HELPFUL and DISAGREE_WITH_TAGS reactions of owner o, in parse order
OpinionReactionsOf(o) ==
    SelectSeq(AllReactions(te_json.descriptors),
              LAMBDA r : r.value = o /\ r.key \in {"HELPFUL", "DISAGREE_WITH_TAGS"})

HasDescriptor(o) ==
    \E i \in 1..Len(te_json.descriptors) : te_json.descriptors[i].owner = o

OpinionsOf(o) == SelectSeq(parsed.opinions, LAMBDA op : op.owner = o)

ReactionCategory(key) ==
    IF key = "HELPFUL" THEN POSITIVE_CLASS ELSE NEGATIVE_CLASS

\* the update was parsed as one that is not a delete
ParsedLive == parsed # NotRun /\ ~te_json.should_delete

\* C4: an owner with an explicit descriptor who also reacted (HELPFUL or
\* DISAGREE_WITH_TAGS, on any descriptor) has exactly one opinion in the
\* record, and it carries the category, tags and id of an explicit descriptor
\* of that owner, never the reaction's category with descriptor id -1.
ExplicitOverridesImplicit ==
    ParsedLive =>
        \A o \in Owners :
            (HasDescriptor(o) /\ OpinionReactionsOf(o) # <<>>) =>
                /\ parsed.kind = "Record"
                /\ Len(OpinionsOf(o)) = 1
                /\ OpinionsOf(o)[1].descriptor_id # REACTION_DESCRIPTOR_ID
                /\ \E i \in 1..Len(te_json.descriptors) :
                      LET td == te_json.descriptors[i]
                      IN /\ td.owner = o
                         /\ OpinionsOf(o)[1] =
                              FBThreatExchangeOpinion(
                                  o, StatusCategory(td.status),
                                  DescriptorTags(td), td.id)

\* C4 witness: a parsed update in which owner 10 has a MALICIOUS descriptor
\* and a DISAGREE_WITH_TAGS reaction made before that descriptor
ExplicitOverridesImplicitWitness ==
    /\ ParsedLive
    /\ Len(te_json.descriptors) = 2
    /\ te_json.descriptors[1].owner = 20
    /\ te_json.descriptors[1].reactions =
          <<[key |-> "DISAGREE_WITH_TAGS", value |-> 10]>>
    /\ te_json.descriptors[2].owner = 10
    /\ te_json.descriptors[2].status = "MALICIOUS"
    /\ Len(OpinionsOf(10)) = 1
    /\ OpinionsOf(10)[1].category = POSITIVE_CLASS

\* owner o reacted HELPFUL and, later in parse order, DISAGREE_WITH_TAGS
HelpfulThenDisagree(o) ==
    LET rs == OpinionReactionsOf(o)
    IN \E i, j \in 1..Len(rs) :
          i < j /\ rs[i].key = "HELPFUL" /\ rs[j].key = "DISAGREE_WITH_TAGS"

\* C5: for an owner without an explicit descriptor, HELPFUL followed later by
\* DISAGREE_WITH_TAGS yields a single implicit opinion of category
\* POSITIVE_CLASS.
HelpfulNotOverwritten ==
    ParsedLive =>
        \A o \in Owners :
            (~HasDescriptor(o) /\ HelpfulThenDisagree(o)) =>
                /\ parsed.kind = "Record"
                /\ OpinionsOf(o) =
                      <<FBThreatExchangeOpinion(o, POSITIVE_CLASS, <<>>,
                                                REACTION_DESCRIPTOR_ID)>>

\* C5 witness: owner 10, without a descriptor, reacted HELPFUL then
\* DISAGREE_WITH_TAGS and the record holds its POSITIVE_CLASS opinion
HelpfulNotOverwrittenWitness ==
    /\ ParsedLive
    /\ ~HasDescriptor(10)
    /\ HelpfulThenDisagree(10)
    /\ parsed.kind = "Record"
    /\ \E i \in 1..Len(parsed.opinions) :
          parsed.opinions[i].owner = 10 /\ parsed.opinions[i].category = POSITIVE_CLASS

\* C6 as stated: for an owner without an explicit descriptor, the implicit
\* opinion has the category of the owner's first HELPFUL / DISAGREE_WITH_TAGS
\* reaction in parse order.
FirstReactionWins ==
    ParsedLive =>
        \A o \in Owners :
            (~HasDescriptor(o) /\ OpinionReactionsOf(o) # <<>>) =>
                /\ parsed.kind = "Record"
                /\ Len(OpinionsOf(o)) = 1
                /\ OpinionsOf(o)[1].category =
                      ReactionCategory(OpinionReactionsOf(o)[1].key)

\* C6 amended: for an owner without an explicit descriptor, the implicit
\* opinion is POSITIVE_CLASS if any of the owner's reactions is HELPFUL,
\* whatever its place in parse order, and NEGATIVE_CLASS if the owner only
\* reacted DISAGREE_WITH_TAGS.
HelpfulWins ==
    ParsedLive =>
        \A o \in Owners :
            (~HasDescriptor(o) /\ OpinionReactionsOf(o) # <<>>) =>
                /\ parsed.kind = "Record"
                /\ Len(OpinionsOf(o)) = 1
                /\ OpinionsOf(o)[1].category =
                      IF \E i \in 1..Len(OpinionReactionsOf(o)) :
                            OpinionReactionsOf(o)[i].key = "HELPFUL"
                      THEN POSITIVE_CLASS ELSE NEGATIVE_CLASS

\* C6 witness: owner 10, without a descriptor, reacted DISAGREE_WITH_TAGS
\* then HELPFUL and the record holds a POSITIVE_CLASS opinion for it
HelpfulWinsWitness ==
    /\ ParsedLive
    /\ ~HasDescriptor(10)
    /\ Len(OpinionReactionsOf(10)) = 2
    /\ OpinionReactionsOf(10)[1].key = "DISAGREE_WITH_TAGS"
    /\ OpinionReactionsOf(10)[2].key = "HELPFUL"
    /\ parsed.kind = "Record"
    /\ OpinionsOf(10)[1].category = POSITIVE_CLASS

----------------------------------------------------------------------------
(* FBThreatExchangeIndicatorRecord.merge *)

\* merge that leaves out the opinions self already holds
merge_Dedup(h, self, other) ==
    [h EXCEPT ![self] =
        h[self] \o SelectSeq(h[other],
                             LAMBDA o : \A i \in 1..Len(h[self]) : h[self][i] # o)]

\* self.opinions.extend(other.opinions)
merge(h, self, other) == [h EXCEPT ![self] = h[self] \o h[other]]

\* the opinions the records of the merge and projection inputs are made of
OpinionPool ==
    {FBThreatExchangeOpinion(10, POSITIVE_CLASS, <<"ab">>, 1),
     FBThreatExchangeOpinion(20, NEGATIVE_CLASS, <<>>, REACTION_DESCRIPTOR_ID)}

\* two records of at most MaxOpinions opinions each
InitMerge ==
    /\ ParseIdle
    /\ ProjectIdle
    /\ FetchIdle
    /\ ApiIdle
    /\ StaleIdle
    /\ \E n1, n2 \in 0..MaxOpinions :
         \E o1 \in [1..n1 -> OpinionPool], o2 \in [1..n2 -> OpinionPool] :
            heap = <<o1, o2>>
    /\ merge_call = NoCall

\* self.merge(other), for any two records, other being self among them; the
\* lists are kept to MaxMergedLen opinions
Merge ==
    /\ \E self \in 1..Len(heap), other \in 1..Len(heap) :
         /\ Len(heap[self]) + Len(heap[other]) <= MaxMergedLen
         /\ heap' = merge(heap, self, other)
         /\ merge_call' = [self |-> self, other |-> other, before |-> heap]
    /\ UNCHANGED <<parse_vars, project_vars, fetch_vars, api_vars, stale_vars>>

NextMerge == Merge

SpecMerge == InitMerge /\ [][NextMerge]_vars

\* C10 as stated: after a.merge(b), a.opinions is the old a.opinions followed
\* by b.opinions in order, its length the sum of both lengths with duplicates
\* kept, and b.opinions is unchanged.
MergeConcatenates ==
    merge_call # NoCall =>
        LET a == merge_call.self
            b == merge_call.other
            old == merge_call.before
        IN /\ heap[a] = old[a] \o old[b]
           /\ Len(heap[a]) = Len(old[a]) + Len(old[b])
           /\ \A i \in 1..Len(old[b]) : heap[a][Len(old[a]) + i] = old[b][i]
           /\ heap[b] = old[b]

\* C10 amended: after a.merge(b), a.opinions is the old a.opinions followed
\* by the old b.opinions in order, its length the sum of both lengths with
\* duplicates kept; every record other than a is unchanged, so b.opinions is
\* unchanged when b is another record than a, and a.merge(a) leaves
\* a.opinions twice as long.
MergeConcatenatesOtherUnchanged ==
    merge_call # NoCall =>
        LET a == merge_call.self
            b == merge_call.other
            old == merge_call.before
        IN /\ heap[a] = old[a] \o old[b]
           /\ Len(heap[a]) = Len(old[a]) + Len(old[b])
           /\ \A i \in 1..Len(old[b]) : heap[a][Len(old[a]) + i] = old[b][i]
           /\ \A c \in 1..Len(heap) : c # a => heap[c] = old[c]
           /\ b # a => heap[b] = old[b]
           /\ b = a => Len(heap[b]) = 2 * Len(old[b])

\* C10 witness: a record of two opinions merged with itself holds them twice
MergeConcatenatesOtherUnchangedWitness ==
    /\ merge_call # NoCall
    /\ merge_call.self = merge_call.other
    /\ Len(merge_call.before[merge_call.self]) = 2
    /\ Len(heap[merge_call.self]) = 4
    /\ heap[merge_call.self][3] = heap[merge_call.self][1]

----------------------------------------------------------------------------
(* Signal types: the classes of supported_signal_types, with the            *)
(* HasFbThreatExchangeIndicatorType capability of each                      *)

\* Python's None as the tag of a type that requires no tag
NoTag == "None"

SignalTypeNames == {"VideoMD5", "RawMD5", "AnyMD5", "Text"}

\* issubclass(st, HasFbThreatExchangeIndicatorType)
HasIndicatorType(st) == st # "Text"

\* st.INDICATOR_TYPE: a str, a set of str or a dict type -> tag
INDICATOR_TYPE(st) ==
    CASE st = "VideoMD5" ->
            [form |-> "dict",
             items |-> <<[k |-> "HASH_VIDEO_MD5", v |-> NoTag],
                         [k |-> "HASH_MD5", v |-> "ab"]>>]
      [] st = "RawMD5" -> [form |-> "str", items |-> <<"HASH_MD5">>]
      [] st = "AnyMD5" ->
            [form |-> "set", items |-> {"HASH_MD5", "HASH_VIDEO_MD5"}]

\* str.lower() of an indicator string
Lower(signal_str) == IF signal_str = "F0" THEN "f0" ELSE signal_str

\* tx_s_type.normalize_fb_threatexchange_indicator(type_str, signal_str, tag):
\* the canonical signal string of the signal type, hex digests in lower case
normalize_fb_threatexchange_indicator(tx_s_type, type_str, signal_str, tag) ==
    Lower(signal_str)

\* the orders in which a Python set may be iterated: they depend on the hash
\* seed of the run
SetIterations(S) ==
    {it \in [1..Cardinality(S) -> S] :
        \A i, j \in 1..Cardinality(S) : it[i] = it[j] => i = j}

\* the orders in which the INDICATOR_TYPE of a signal type may be iterated
\* when it is a set; the empty sequence for the other signal types
IterationsOf(st) ==
    IF HasIndicatorType(st) /\ INDICATOR_TYPE(st).form = "set"
    THEN SetIterations(INDICATOR_TYPE(st).items)
    ELSE {<<>>}

\* what a run may fix: for every signal type, the order of iteration of its
\* set
AllSetOrders ==
    {set_order \in [SignalTypeNames ->
                       UNION {IterationsOf(st) : st \in SignalTypeNames}] :
        \A st \in SignalTypeNames : set_order[st] \in IterationsOf(st)}

\* the same for the signal types a call is given, which are those whose sets
\* it iterates
SetOrders(supported_signal_types) ==
    LET sts == {supported_signal_types[i] : i \in DOMAIN supported_signal_types}
    IN {[st \in sts |-> set_order[st]] : set_order \in AllSetOrders}

\* one of them, where the order has no part in the result
AnySetOrder == CHOOSE set_order \in AllSetOrders : TRUE

----------------------------------------------------------------------------
(* _make_indicator_type_mapping *)

\* types.items() after the str and set forms are made dicts with tag None;
\* the dict made of a set has its keys in the order of iteration of the set
TypesItems(st, set_order) ==
    LET types == INDICATOR_TYPE(st)
    IN IF types.form = "dict" THEN types.items
       ELSE IF types.form = "str"
       THEN [i \in 1..Len(types.items) |-> [k |-> types.items[i], v |-> NoTag]]
       ELSE [i \in 1..Len(set_order[st]) |->
                [k |-> set_order[st][i], v |-> NoTag]]

\* AppendSignalType that puts the signal type at the head of the list
RECURSIVE AppendSignalType_Prepend(_, _, _)
AppendSignalType_Prepend(mapping, st, items) ==
    IF items = <<>> THEN mapping
    ELSE LET type_ == Head(items).k
             tag == Head(items).v
             by_tag == IF DictHas(mapping, type_) THEN DictGet(mapping, type_)
                       ELSE <<>>
             s_types == IF DictHas(by_tag, tag) THEN DictGet(by_tag, tag)
                        ELSE <<>>
         IN AppendSignalType_Prepend(
                DictSet(mapping, type_, DictSet(by_tag, tag, <<st>> \o s_types)),
                st, Tail(items))

\* ret[type_][tag].append(st) for each item; ret is a defaultdict
RECURSIVE AppendSignalType(_, _, _)
AppendSignalType(mapping, st, items) ==
    IF items = <<>> THEN mapping
    ELSE LET type_ == Head(items).k
             tag == Head(items).v
             by_tag == IF DictHas(mapping, type_) THEN DictGet(mapping, type_)
                       ELSE <<>>
             s_types == IF DictHas(by_tag, tag) THEN DictGet(by_tag, tag)
                        ELSE <<>>
         IN AppendSignalType(
                DictSet(mapping, type_, DictSet(by_tag, tag, Append(s_types, st))),
                st, Tail(items))

RECURSIVE MappingLoop(_, _, _)
MappingLoop(mapping, supported_signal_types, set_order) ==
    IF supported_signal_types = <<>> THEN mapping
    ELSE LET st == Head(supported_signal_types)
         IN MappingLoop(
                IF ~HasIndicatorType(st) THEN mapping
                ELSE AppendSignalType(mapping, st, TypesItems(st, set_order)),
                Tail(supported_signal_types), set_order)

_make_indicator_type_mapping(supported_signal_types, set_order) ==
    MappingLoop(<<>>, supported_signal_types, set_order)

----------------------------------------------------------------------------
(* _merge_record_for_signal_type and naive_convert_to_signal_type *)

\* [o for o in tx_record.opinions if any(t in tag for t in o.tags)]
ApplicableOpinions(opinions, tag) ==
    SelectSeq(opinions,
              LAMBDA o : \E i \in 1..Len(o.tags) : IsSubstring(o.tags[i], tag))

\* the result of one call: the heap after it, the record to insert (0 for
\* None), and what the call did with which opinions
_merge_record_for_signal_type(h, tx_record, tag, existing) ==
    LET applicable_opinions == ApplicableOpinions(h[tx_record], tag)
        fresh == tag # NoTag /\ Len(applicable_opinions) # Len(h[tx_record])
        h1 == IF fresh THEN Append(h, applicable_opinions) ELSE h
        tx1 == IF fresh THEN Len(h) + 1 ELSE tx_record
    IN IF tag # NoTag /\ applicable_opinions = <<>>
       THEN [heap |-> h, to_insert |-> 0, outcome |-> "none", opinions |-> <<>>]
       ELSE IF existing # 0
       THEN [heap |-> merge(h1, existing, tx1), to_insert |-> 0,
             outcome |-> "merged", opinions |-> h1[tx1]]
       ELSE [heap |-> h1, to_insert |-> tx1, outcome |-> "inserted",
             opinions |-> h1[tx1]]

\* {t for opinion in metadata.opinions for t in opinion.tags}
IndicatorTags(opinions) ==
    UNION {{opinions[i].tags[j] : j \in 1..Len(opinions[i].tags)} :
              i \in 1..Len(opinions)}

\* TagApplies without the test of the tag
TagApplies_Always(tag, indicator_tags) == TRUE

\* not (tag is not None and tag not in indicator_tags)
TagApplies(tag, indicator_tags) == ~(tag # NoTag /\ tag \notin indicator_tags)

\* for tx_s_type in s_types; st8 is [heap, ret, log], i the place of the
\* entry in fetched.items()
RECURSIVE SignalTypeLoop(_, _, _, _, _)
SignalTypeLoop(st8, i, entry, tag, s_types) ==
    IF s_types = <<>> THEN st8
    ELSE LET tx_s_type == Head(s_types)
             s_type_specific_signal_str ==
                 normalize_fb_threatexchange_indicator(
                     tx_s_type, entry.k[1], entry.k[2], tag)
             inner == IF DictHas(st8.ret, tx_s_type)
                      THEN DictGet(st8.ret, tx_s_type) ELSE <<>>
             existing == IF DictHas(inner, s_type_specific_signal_str)
                         THEN DictGet(inner, s_type_specific_signal_str) ELSE 0
             m == _merge_record_for_signal_type(st8.heap, entry.v, tag, existing)
             inner1 == IF m.to_insert # 0
                       THEN DictSet(inner, s_type_specific_signal_str, m.to_insert)
                       ELSE inner
             log1 == IF m.outcome = "none" THEN st8.log
                     ELSE Append(st8.log,
                                 [entry |-> i, s_type |-> tx_s_type,
                                  signal |-> s_type_specific_signal_str,
                                  tag |-> tag, outcome |-> m.outcome,
                                  opinions |-> m.opinions])
         IN SignalTypeLoop(
                [heap |-> m.heap, ret |-> DictSet(st8.ret, tx_s_type, inner1),
                 log |-> log1],
                i, entry, tag, Tail(s_types))

\* for tag, s_types in potential_types.items()
RECURSIVE TagLoop(_, _, _, _, _)
TagLoop(st8, i, entry, indicator_tags, potential_items) ==
    IF potential_items = <<>> THEN st8
    ELSE LET tag == Head(potential_items).k
             s_types == Head(potential_items).v
         IN TagLoop(
                IF ~TagApplies(tag, indicator_tags) THEN st8
                ELSE SignalTypeLoop(st8, i, entry, tag, s_types),
                i, entry, indicator_tags, Tail(potential_items))

\* for (type_str, signal_str), metadata in fetched.items()
RECURSIVE FetchedLoop(_, _, _, _)
FetchedLoop(st8, items, i, mapping) ==
    IF i > Len(items) THEN st8
    ELSE LET entry == items[i]
         IN FetchedLoop(
                IF ~DictHas(mapping, entry.k[1]) \/ entry.v = 0 THEN st8
                ELSE TagLoop(st8, i, entry, IndicatorTags(st8.heap[entry.v]),
                             DictGet(mapping, entry.k[1])),
                items, i + 1, mapping)

naive_convert_to_signal_type(h, signal_types_, fetched_, set_order) ==
    FetchedLoop([heap |-> h, ret |-> <<>>, log |-> <<>>], fetched_, 1,
                _make_indicator_type_mapping(signal_types_, set_order))

----------------------------------------------------------------------------
(* Projection of a fetched mapping *)

\* the keys (type, indicator) of the fetched mapping
FetchedKeys ==
    {<<"HASH_MD5", "F0">>, <<"HASH_MD5", "f0">>,
     <<"HASH_VIDEO_MD5", "F0">>, <<"HASH_VIDEO_MD5", "f0">>,
     <<"URI", "f0">>}

\* the opinions lists of the fetched records
RecordValues ==
    <<  \* a tagged explicit opinion and an implicit one, which has no tags
        <<FBThreatExchangeOpinion(10, POSITIVE_CLASS, <<"ab">>, 1),
          FBThreatExchangeOpinion(20, NEGATIVE_CLASS, <<>>, REACTION_DESCRIPTOR_ID)>>,
        \* the tag and a tag that is a part of it
        <<FBThreatExchangeOpinion(10, POSITIVE_CLASS, <<"ab">>, 1),
          FBThreatExchangeOpinion(30, NEGATIVE_CLASS, <<"a">>, 3)>>,
        \* the tag and a tag it is a part of
        <<FBThreatExchangeOpinion(40, INVESTIGATION_SEED, <<"xab">>, 4),
          FBThreatExchangeOpinion(10, POSITIVE_CLASS, <<"ab">>, 1)>>,
        \* the empty tag alone
        <<FBThreatExchangeOpinion(50, POSITIVE_CLASS, <<"">>, 5)>> >>

\* the reference of the record of entry i: records are numbered in the order
\* of the entries that hold one
RefOf(vals, i) ==
    IF vals[i] = 0 THEN 0 ELSE Cardinality({j \in 1..i : vals[j] # 0})

\* at most MaxSignalTypes signal types, each once, and a mapping of at most
\* MaxFetched keys, each to None or to a record of its own
InitProject ==
    /\ ParseIdle
    /\ FetchIdle
    /\ ApiIdle
    /\ StaleIdle
    /\ merge_call = NoCall
    /\ \E k \in 0..MaxSignalTypes, n \in 0..MaxFetched :
         \E sts \in [1..k -> SignalTypeNames], keys \in [1..n -> FetchedKeys],
            vals \in [1..n -> 0..Len(RecordValues)] :
            /\ \A i, j \in 1..k : i # j => sts[i] # sts[j]
            /\ \A i, j \in 1..n : i # j => keys[i] # keys[j]
            /\ signal_types = sts
            /\ fetched = [i \in 1..n |-> [k |-> keys[i], v |-> RefOf(vals, i)]]
            /\ heap = LET live == SelectSeq([i \in 1..n |-> vals[i]],
                                            LAMBDA v : v # 0)
                      IN [r \in 1..Len(live) |-> RecordValues[live[r]]]
    /\ input_heap = <<>>
    /\ projections = 0
    /\ ret = <<>>
    /\ merge_log = <<>>

\* ret = naive_convert_to_signal_type(signal_types, fetched)
Project ==
    /\ projections < MaxProjections
    /\ \E set_order \in SetOrders(signal_types) :
          \E out \in {naive_convert_to_signal_type(heap, signal_types, fetched,
                                                  set_order)} :
             /\ heap' = out.heap
             /\ ret' = out.ret
             /\ merge_log' = out.log
    /\ input_heap' = heap
    /\ projections' = projections + 1
    /\ UNCHANGED <<parse_vars, merge_call, signal_types, fetched, fetch_vars,
                   api_vars, stale_vars>>

NextProject == Project

SpecProject == InitProject /\ [][NextProject]_vars

----------------------------------------------------------------------------
(* Properties of naive_convert_to_signal_type *)

RangeOf(seq) == {seq[i] : i \in 1..Len(seq)}

\* st declares the remote type with this tag (NoTag: no tag required)
Declares(st, type_str, tag) ==
    /\ HasIndicatorType(st)
    /\ LET types == INDICATOR_TYPE(st)
       IN IF types.form = "dict"
          THEN \E i \in 1..Len(types.items) :
                  types.items[i].k = type_str /\ types.items[i].v = tag
          ELSE IF types.form = "str"
          THEN tag = NoTag /\ types.items = <<type_str>>
          ELSE tag = NoTag /\ type_str \in types.items

\* the opinions of the record of entry i when the projection was called
InputOpinions(i) == input_heap[fetched[i].v]

\* the output of st was given the record of entry i, or had it merged in
Received(i, st) ==
    \E l \in 1..Len(merge_log) :
        merge_log[l].entry = i /\ merge_log[l].s_type = st

\* the opinions of the output entry of st for signal string s
OutputOpinions(st, s) == heap[DictGet(DictGet(ret, st), s)]

HasOutput(st, s) == DictHas(ret, st) /\ DictHas(DictGet(ret, st), s)

\* some tag of the opinion contains g
OpinionTagContains(o, g) == \E j \in 1..Len(o.tags) : IsSubstring(g, o.tags[j])

\* what the record of entry i is to give the entry of st for signal string s:
\* its opinions when st declares its type without a tag, the opinions that
\* pass the filter of the tag when st declares its type with a tag that
\* applies, and nothing otherwise
Contribution(i, st, s) ==
    LET e == fetched[i]
        mine == SelectSeq(TypesItems(st, AnySetOrder), LAMBDA it : it.k = e.k[1])
    IN IF e.v = 0 \/ mine = <<>> THEN <<>>
       ELSE LET tag == mine[1].v
                opinions == InputOpinions(i)
            IN IF normalize_fb_threatexchange_indicator(st, e.k[1], e.k[2], tag) # s
               THEN <<>>
               ELSE IF tag = NoTag THEN opinions
               ELSE IF tag \in IndicatorTags(opinions)
               THEN ApplicableOpinions(opinions, tag)
               ELSE <<>>

RECURSIVE ContributionsFrom(_, _, _)
ContributionsFrom(i, st, s) ==
    IF i > Len(fetched) THEN <<>>
    ELSE Contribution(i, st, s) \o ContributionsFrom(i + 1, st, s)

SignalStrings == {Lower(k[2]) : k \in FetchedKeys}

\* C1: after the projection, every (signal type, signal string) entry of the
\* output holds the concatenation, in input order, of the (tag-filtered)
\* opinions of exactly the input records that normalized to that signal string
\* for that signal type, and there is an entry wherever a record contributes.
OutputIsConcatenation ==
    projections > 0 =>
        \A st \in RangeOf(signal_types) \cap {t \in SignalTypeNames : HasIndicatorType(t)},
           s \in SignalStrings :
            LET expected == ContributionsFrom(1, st, s)
            IN /\ HasOutput(st, s) <=> expected # <<>>
               /\ HasOutput(st, s) => OutputOpinions(st, s) = expected

\* C8: a signal type that declares a remote type without a tag receives every
\* non-null record of that type, with all its opinions, whatever its tags; a
\* signal type that declares the type with tag g receives a record of that
\* type only if some opinion of the record has a tag that contains g.
TagNoneReceivesAllTaggedOnlyMatching ==
    projections > 0 =>
        \A i \in 1..Len(fetched), st \in RangeOf(signal_types) :
            fetched[i].v # 0 =>
                /\ Declares(st, fetched[i].k[1], NoTag) =>
                      \E l \in 1..Len(merge_log) :
                          /\ merge_log[l].entry = i
                          /\ merge_log[l].s_type = st
                          /\ merge_log[l].opinions = InputOpinions(i)
                          /\ HasOutput(st, merge_log[l].signal)
                /\ \A g \in Tags :
                      (Declares(st, fetched[i].k[1], g) /\ Received(i, st)) =>
                          \E k \in 1..Len(InputOpinions(i)) :
                              OpinionTagContains(InputOpinions(i)[k], g)

\* C8 witness: VideoMD5, which declares HASH_MD5 with tag "ab", has received a
\* HASH_MD5 record, and RawMD5, which declares HASH_MD5 without a tag, has
\* received a HASH_MD5 record none of whose tags is "ab"
TagNoneReceivesAllTaggedOnlyMatchingWitness ==
    /\ projections > 0
    /\ \E i, j \in 1..Len(fetched) :
          /\ fetched[i].k[1] = "HASH_MD5"
          /\ Received(i, "VideoMD5")
          /\ fetched[j].k[1] = "HASH_MD5"
          /\ fetched[j].v # 0
          /\ "ab" \notin IndicatorTags(InputOpinions(j))
          /\ Received(j, "RawMD5")
          /\ ~Received(j, "VideoMD5")

\* C9: under an entry of the resolver with tag g, the opinions a record gives
\* the output are exactly its opinions that have some tag containing g; an
\* opinion none of whose tags contains g is never given.
ContributesOpinionsWhoseTagContains ==
    projections > 0 =>
        \A i \in 1..Len(fetched), st \in RangeOf(signal_types), g \in Tags :
            (fetched[i].v # 0 /\ Declares(st, fetched[i].k[1], g)) =>
                LET expected == SelectSeq(InputOpinions(i),
                                          LAMBDA o : OpinionTagContains(o, g))
                IN /\ Received(i, st) <=> expected # <<>>
                   /\ \A l \in 1..Len(merge_log) :
                         (merge_log[l].entry = i /\ merge_log[l].s_type = st) =>
                             merge_log[l].opinions = expected

\* mapping[type_str][tag], the empty list where the mapping has no such entry
SignalTypesFor(mapping, type_str, tag) ==
    IF DictHas(mapping, type_str) /\ DictHas(DictGet(mapping, type_str), tag)
    THEN DictGet(DictGet(mapping, type_str), tag)
    ELSE <<>>

\* C18: the mapping built from the signal types lists, under every remote
\* type and tag, exactly the signal types that declare the pair (a str or a
\* set declaring it with no tag), in the order of the input; a signal type
\* without the capability is in no list; the mapping has no entry without a
\* signal type; this in whatever order the sets are iterated, so that two
\* builds from the same input are equal as mappings.
MappingListsDeclarations ==
    projections > 0 =>
      \A set_order \in SetOrders(signal_types) :
        \A mapping \in {_make_indicator_type_mapping(signal_types, set_order)} :
           /\ \A type_str \in {k[1] : k \in FetchedKeys}, tag \in Tags \cup {NoTag} :
                 SignalTypesFor(mapping, type_str, tag) =
                     SelectSeq(signal_types,
                               LAMBDA st : Declares(st, type_str, tag))
           /\ \A i \in 1..Len(mapping) :
                 /\ mapping[i].v # <<>>
                 /\ \A j \in 1..Len(mapping[i].v) :
                       /\ mapping[i].v[j].v # <<>>
                       /\ "Text" \notin RangeOf(mapping[i].v[j].v)
           /\ \A i, j \in 1..Len(mapping) : mapping[i].k = mapping[j].k => i = j

\* C18 witness: AnyMD5, which declares its types as a set, and RawMD5, which
\* declares HASH_MD5 as a str, are listed in this order under HASH_MD5
\* without a tag, in both orders of iteration of the set, which give the
\* mapping its keys in two orders
MappingListsDeclarationsWitness ==
    /\ projections > 0
    /\ signal_types = <<"AnyMD5", "RawMD5">>
    /\ \A set_order \in SetOrders(signal_types) :
          /\ SignalTypesFor(_make_indicator_type_mapping(signal_types, set_order),
                            "HASH_MD5", NoTag) = <<"AnyMD5", "RawMD5">>
          /\ SignalTypesFor(_make_indicator_type_mapping(signal_types, set_order),
                            "HASH_VIDEO_MD5", NoTag) = <<"AnyMD5">>
    /\ \E o1, o2 \in SetOrders(signal_types) :
          _make_indicator_type_mapping(signal_types, o1)[1].k #
          _make_indicator_type_mapping(signal_types, o2)[1].k

\* the (signal type, signal string) entries of the output
OutputEntries ==
    {e \in RangeOf(signal_types) \X SignalStrings : HasOutput(e[1], e[2])}

\* C19: after the projection every record of the fetched mapping has the
\* opinions it had when the projection was called, and no two entries of the
\* output are one and the same record.
ProjectionLeavesInputUnchanged ==
    projections > 0 =>
        /\ \A i \in 1..Len(fetched) :
              fetched[i].v # 0 => heap[fetched[i].v] = InputOpinions(i)
        /\ \A e1, e2 \in OutputEntries :
              e1 # e2 =>
                  DictGet(DictGet(ret, e1[1]), e1[2]) #
                  DictGet(DictGet(ret, e2[1]), e2[2])

----------------------------------------------------------------------------
(* _indicator_applies and fetch_iter *)

\* int(x) of a time x >= 0 given in ticks: the whole seconds in it
int(time_) == time_ \div TicksPerSecond

\* a checkpoint constructed at time_ with update_time alone: last_fetch_time
\* takes its default, int(time.time())
FBThreatExchangeCheckpoint(update_time, time_) ==
    [kind |-> "Checkpoint", update_time |-> update_time,
     last_fetch_time |-> int(time_)]

ThreatExchangeDelta(updates, checkpoint_) ==
    [kind |-> "Delta", updates |-> updates, checkpoint |-> checkpoint_]

\* AnyTagDeclared that lets every record pass
AnyTagDeclared_Always(opinions, potential_signal_type) == TRUE

\* AnyTagDeclared with containment in place of equality of the tags
AnyTagDeclared_Substring(opinions, potential_signal_type) ==
    \E i \in 1..Len(opinions) :
        \E j \in 1..Len(opinions[i].tags) :
            \E k \in 1..Len(potential_signal_type) :
                IsSubstring(potential_signal_type[k].k, opinions[i].tags[j])

\* any(tag in potential_signal_type
\*     for opinion in indicator.opinions for tag in opinion.tags)
AnyTagDeclared(opinions, potential_signal_type) ==
    \E i \in 1..Len(opinions) :
        \E j \in 1..Len(opinions[i].tags) :
            DictHas(potential_signal_type, opinions[i].tags[j])

_indicator_applies(u, type_mapping) ==
    IF ~DictHas(type_mapping, u.threat_type) THEN NoRecord
    ELSE LET potential_signal_type == DictGet(type_mapping, u.threat_type)
             indicator == from_threatexchange_json(u)
         IN IF indicator = NoRecord THEN NoRecord
            ELSE IF DictHas(potential_signal_type, NoTag) THEN indicator
            ELSE IF AnyTagDeclared(indicator.opinions, potential_signal_type)
            THEN indicator
            ELSE NoRecord

Max(a, b) == IF a >= b THEN a ELSE b

\* highest_time = update.time, without the running maximum
NextHighestTime_Last(update_time, highest_time_) == update_time

\* max(update.time, highest_time)
NextHighestTime(update_time, highest_time_) == Max(update_time, highest_time_)

\* for update in fetch: highest_time = max(update.time, highest_time)
RECURSIVE HighestTime(_, _)
HighestTime(highest_time_, fetch) ==
    IF fetch = <<>> THEN highest_time_
    ELSE HighestTime(NextHighestTime(Head(fetch).time, highest_time_), Tail(fetch))

\* BatchUpdates that keeps the first value of a key
RECURSIVE BatchUpdates_FirstWins(_, _, _)
BatchUpdates_FirstWins(updates, batch_, type_mapping) ==
    IF batch_ = <<>> THEN updates
    ELSE LET u == Head(batch_)
         IN BatchUpdates_FirstWins(
                IF DictHas(updates, <<u.threat_type, u.indicator>>) THEN updates
                ELSE DictSet(updates, <<u.threat_type, u.indicator>>,
                             _indicator_applies(u, type_mapping)),
                Tail(batch_), type_mapping)

\* for u in batch: updates[u.threat_type, u.indicator] = _indicator_applies(...)
RECURSIVE BatchUpdates(_, _, _)
BatchUpdates(updates, batch_, type_mapping) ==
    IF batch_ = <<>> THEN updates
    ELSE LET u == Head(batch_)
         IN BatchUpdates(
                DictSet(updates, <<u.threat_type, u.indicator>>,
                        _indicator_applies(u, type_mapping)),
                Tail(batch_), type_mapping)

\* FetchPage with the updates of the delta taken from the new page alone
FetchPage_PageOnly(batch_, highest_time_, fetch, type_mapping) ==
    [batch |-> batch_ \o fetch,
     highest_time |-> HighestTime(highest_time_, fetch),
     updates |-> BatchUpdates(<<>>, fetch, type_mapping)]

\* the body of the loop over the cursor for one page, up to the yield: the
\* locals after it and the updates of the delta
FetchPage(batch_, highest_time_, fetch, type_mapping) ==
    [batch |-> batch_ \o fetch,
     highest_time |-> HighestTime(highest_time_, fetch),
     updates |-> BatchUpdates(<<>>, batch_ \o fetch, type_mapping)]

\* the delta yielded for the page, whose checkpoint is constructed at time_
YieldDelta(page, time_) ==
    ThreatExchangeDelta(page.updates,
                        FBThreatExchangeCheckpoint(page.highest_time, time_))

----------------------------------------------------------------------------
(* FBThreatExchangeSignalExchangeAPI: the object, its api property and the  *)
(* operations that do not fetch                                             *)

\* how an operation ends: it raises or it returns
Raise(exc) == [kind |-> "Raise", exc |-> exc]
Return(value) == [kind |-> "Return", value |-> value]

NotImplementedError == "NotImplementedError"
ConfigError == "Exception: App Developer token not configured."

\* Python's None as fb_app_token
NoToken == "None"
AppTokens == {NoToken, "10|secret", "77|other"}

\* int(fb_app_token.partition("|")[0]): the app id is the first part of an
\* app token
AppIdOf(fb_app_token) ==
    CASE fb_app_token = "10|secret" -> 10
      [] fb_app_token = "77|other" -> 77

\* the client built from an app token; there is none for None
ThreatExchangeAPI(fb_app_token) ==
    [kind |-> "ThreatExchangeAPI", api_token |-> fb_app_token,
     app_id |-> AppIdOf(fb_app_token)]

\* __init__: the value of self._api it leaves
__init__(fb_app_token) ==
    IF fb_app_token # NoToken THEN ThreatExchangeAPI(fb_app_token) ELSE NoApi

\* api that falls back to a client of its own
api_Default(self_api) ==
    IF self_api = NoApi THEN Return(ThreatExchangeAPI("10|secret"))
    ELSE Return(self_api)

\* the api property
api(self_api) ==
    IF self_api = NoApi THEN Raise(ConfigError) ELSE Return(self_api)

SignalOpinion(owner, category, tags) ==
    [owner |-> owner, category |-> category, tags |-> tags]

resolve_owner(self_api, id) == Raise(NotImplementedError)

get_own_owner_id(self_api, collab) ==
    LET client == api(self_api)
    IN IF client.kind = "Raise" THEN client ELSE Return(client.value.app_id)

\* report_seen that does nothing and returns
report_seen_Silent(self_api, collab, s_type, signal, metadata) == Return("None")

report_seen(self_api, collab, s_type, signal, metadata) ==
    Raise(NotImplementedError)

report_opinion(self_api, collab, s_type, signal, opinion) ==
    Raise(NotImplementedError)

\* the arguments of report_opinion are evaluated first, get_own_owner_id
\* among them
report_true_positive(self_api, collab, s_type, signal, metadata) ==
    LET owner == get_own_owner_id(self_api, collab)
    IN IF owner.kind = "Raise" THEN owner
       ELSE report_opinion(self_api, collab, s_type, signal,
                           SignalOpinion(owner.value, POSITIVE_CLASS, {}))

report_false_positive(self_api, collab, s_type, signal, metadata) ==
    LET owner == get_own_owner_id(self_api, collab)
    IN IF owner.kind = "Raise" THEN owner
       ELSE report_opinion(self_api, collab, s_type, signal,
                           SignalOpinion(owner.value, NEGATIVE_CLASS, {}))

Outcome(op, args, result) == [op |-> op, args |-> args, result |-> result]

----------------------------------------------------------------------------
(* A sync: calls of fetch_iter, each given the last checkpoint emitted *)

\* the supported_signal_types of the sync
SupportedSignalTypes == <<"VideoMD5", "Text">>

ThreatTypes == {"HASH_MD5", "HASH_VIDEO_MD5", "URI"}

\* what an update carries besides its key and its time
Payloads ==
    {   \* a malicious descriptor tagged "ab", with a reaction
        [should_delete |-> FALSE,
         descriptors |-> <<[id |-> 1, owner |-> 10, status |-> "MALICIOUS",
                            tags |-> [form |-> "list", data |-> <<"ab">>],
                            reactions |-> <<[key |-> "HELPFUL", value |-> 20]>>]>>],
        \* the same descriptor on an update that deletes the indicator
        [should_delete |-> TRUE,
         descriptors |-> <<[id |-> 1, owner |-> 10, status |-> "MALICIOUS",
                            tags |-> [form |-> "list", data |-> <<"ab">>],
                            reactions |-> <<>>]>>],
        \* a descriptor without tags
        [should_delete |-> FALSE,
         descriptors |-> <<[id |-> 2, owner |-> 20, status |-> "UNKNOWN",
                            tags |-> [form |-> "absent", data |-> <<>>],
                            reactions |-> <<>>]>>],
        \* no descriptor at all
        [should_delete |-> FALSE, descriptors |-> <<>>] }

ThreatUpdateJSON(threat_type, indicator, time, payload) ==
    [threat_type |-> threat_type, indicator |-> indicator, time |-> time,
     should_delete |-> payload.should_delete, descriptors |-> payload.descriptors]

\* Python's None as start_time: no checkpoint, the whole history is asked for
NoStartTime == "None"

\* start_time is None
IsNoStartTime(start_time) == ToString(start_time) = ToString(NoStartTime)

\* the updates the cursor may deliver when asked for those from start_time
\* on, or for all of them; the times of updates are at least 1
CursorUpdates(start_time) ==
    LET first == IF IsNoStartTime(start_time) THEN 1 ELSE Max(start_time, 1)
    IN {ThreatUpdateJSON(ty, "f0", tm, pl) :
           ty \in ThreatTypes, tm \in first..MaxTime, pl \in Payloads}

\* start_time = None if checkpoint is None else checkpoint.update_time
StartTime(checkpoint_) ==
    IF checkpoint_ = NoCheckpoint THEN NoStartTime ELSE checkpoint_.update_time

\* an API object constructed with an app token
InitFetch ==
    /\ ParseIdle
    /\ HeapIdle
    /\ ProjectIdle
    /\ FetchIdle
    /\ StaleIdle
    /\ _api = __init__("10|secret")
    /\ outcome = NoOutcome

\* gen = fetch_iter(supported_signal_types, collab, checkpoint): the caller
\* hands in the checkpoint it holds; the body runs at the first next(gen),
\* and the locals of the new generator are shown as it will initialize them
FetchIter ==
    /\ gen' = "created"
    /\ checkpoint' = stored
    /\ batch' = <<>>
    /\ highest_time' = 0
    /\ delta' = NoDelta
    /\ outcome' = Outcome("fetch_iter", <<>>, Return("generator"))
    /\ UNCHANGED <<parse_vars, heap, merge_call, project_vars, stored,
                   ever_fetched, _api, stale_vars>>

\* next(gen) when the cursor delivers a page: the generator runs to its yield
\* and the caller keeps the checkpoint of the delta; the cursor delivers at
\* most max_batch updates in all; time has passed since the step before, up
\* to max_now, and the checkpoint is constructed at the time of the yield
NextDeltaUpTo(max_batch, max_now) ==
    /\ gen \in {"created", "suspended"}
    /\ gen = "created" => api(_api).kind = "Return"
    /\ \E set_order \in SetOrders(SupportedSignalTypes) :
        \E type_mapping \in {_make_indicator_type_mapping(SupportedSignalTypes,
                                                          set_order)},
           n \in 0..(max_batch - Len(batch)) :
            \E fetch \in [1..n -> CursorUpdates(StartTime(checkpoint))] :
               \E page \in {FetchPage(batch, highest_time, fetch,
                                      type_mapping)},
                  time_ \in now..max_now :
                  /\ batch' = page.batch
                  /\ highest_time' = page.highest_time
                  /\ now' = time_
                  /\ delta' = YieldDelta(page, time_)
                  /\ stored' = YieldDelta(page, time_).checkpoint
                  /\ ever_fetched' = (ever_fetched \/ n > 0)
    /\ gen' = "suspended"
    /\ outcome' = Outcome("next", <<>>, Return("delta"))
    /\ UNCHANGED <<parse_vars, heap, merge_call, project_vars, checkpoint,
                   _api, last_fetch_time, stale>>

NextDelta == NextDeltaUpTo(MaxBatch, MaxNow)

\* next(gen) when the cursor has no more pages: the generator returns; and
\* next(gen) on a generator that has finished, by a return or by an
\* exception: StopIteration, every time
NextStop ==
    /\ gen \in {"created", "suspended", "finished"}
    /\ gen = "created" => api(_api).kind = "Return"
    /\ gen' = "finished"
    /\ outcome' = Outcome("next", <<>>, Raise("StopIteration"))
    /\ UNCHANGED <<parse_vars, heap, merge_call, project_vars, stored,
                   ever_fetched, checkpoint, batch, highest_time, delta,
                   _api, stale_vars>>

\* the first next(gen) of an object without a client: self.api raises and
\* the generator is finished
NextRaise ==
    /\ gen = "created"
    /\ api(_api).kind = "Raise"
    /\ gen' = "finished"
    /\ outcome' = Outcome("next", <<>>, api(_api))
    /\ UNCHANGED <<parse_vars, heap, merge_call, project_vars, stored,
                   ever_fetched, checkpoint, batch, highest_time, delta,
                   _api, stale_vars>>

NextFetch == FetchIter \/ NextDelta \/ NextStop

SpecFetch == InitFetch /\ [][NextFetch]_vars

----------------------------------------------------------------------------
(* Properties of fetch_iter *)

\* the greatest update time of a batch that is not empty
MaxTimeOf(batch_) ==
    CHOOSE t \in {batch_[i].time : i \in 1..Len(batch_)} :
        \A i \in 1..Len(batch_) : batch_[i].time <= t

\* C2: every checkpoint emitted has an update_time at least that of the
\* checkpoint handed to the call of fetch_iter that emits it, whatever the
\* pages hold, and has update_time 0 only if no update was ever fetched.
WatermarkNeverDecreases ==
    delta # NoDelta =>
        /\ checkpoint # NoCheckpoint =>
              delta.checkpoint.update_time >= checkpoint.update_time
        /\ delta.checkpoint.update_time = 0 => ~ever_fetched

\* C3: within one call of fetch_iter, the checkpoint emitted after a page has
\* the greatest update time of all updates of the pages so far, in whatever
\* order the times came, and the checkpoints of successive deltas of the call
\* never decrease.
WatermarkIsRunningMaximum ==
    /\ [](delta # NoDelta /\ batch # <<>> =>
            delta.checkpoint.update_time = MaxTimeOf(batch))
    /\ [][(delta # NoDelta /\ delta' # NoDelta) =>
            delta'.checkpoint.update_time >= delta.checkpoint.update_time]_vars

\* C3 witness: a delta emitted for a batch whose times came in decreasing
\* order, with the first, greater time as its checkpoint
WatermarkIsRunningMaximumWitness ==
    /\ delta # NoDelta
    /\ Len(batch) = 2
    /\ batch[1].time = 2
    /\ batch[2].time = 1
    /\ delta.checkpoint.update_time = 2

\* the key of an update in the updates of a delta
KeyOf(u) == <<u.threat_type, u.indicator>>

DeltaKeys(d) == {d.updates[i].k : i \in 1..Len(d.updates)}

BatchKeys(batch_) == {KeyOf(batch_[i]) : i \in 1..Len(batch_)}

\* C14: every next of the generator that is given a page yields one delta,
\* and the end of the cursor yields none; the keys of a delta are the keys of
\* all updates of the pages so far, each once: a key of an earlier delta of
\* the call is never dropped, and an update of a type that no signal type
\* declares is present with the value None.
DeltaCoversAllPages ==
    /\ [](delta # NoDelta =>
            /\ DeltaKeys(delta) = BatchKeys(batch)
            /\ Cardinality(DeltaKeys(delta)) = Len(delta.updates)
            /\ \A i \in 1..Len(batch) :
                  batch[i].threat_type = "URI" =>
                      DictGet(delta.updates, KeyOf(batch[i])) = NoRecord)
    /\ [][(delta # NoDelta /\ delta' # NoDelta) =>
            DeltaKeys(delta) \subseteq DeltaKeys(delta')]_vars
    /\ [][gen' = "suspended" =>
            /\ delta'.kind = "Delta"
            /\ Len(batch') >= Len(batch)
            /\ SubSeq(batch', 1, Len(batch)) = batch]_vars
    /\ [][gen' = "finished" => delta' = delta]_vars

\* C14 witness: a delta for a batch of an update of no declared type and an
\* update of a declared one holds both keys, the first with the value None
DeltaCoversAllPagesWitness ==
    /\ delta # NoDelta
    /\ Len(batch) = 2
    /\ batch[1].threat_type = "URI"
    /\ batch[2].threat_type = "HASH_VIDEO_MD5"
    /\ DeltaKeys(delta) = {<<"URI", "f0">>, <<"HASH_VIDEO_MD5", "f0">>}
    /\ DictGet(delta.updates, <<"URI", "f0">>) = NoRecord
    /\ DictGet(delta.updates, <<"HASH_VIDEO_MD5", "f0">>) # NoRecord

\* the last update of the batch for the key
LastFor(batch_, key) ==
    batch_[CHOOSE j \in 1..Len(batch_) :
              /\ KeyOf(batch_[j]) = key
              /\ \A l \in (j + 1)..Len(batch_) : KeyOf(batch_[l]) # key]

\* C15: in every delta the value of a key is that of the last update of the
\* accumulated batch for the key: None when that update is a delete, even if
\* an earlier one added the indicator, and the record of that update when it
\* adds the indicator, even if an earlier one deleted it.
LastUpdateWins ==
    delta # NoDelta =>
        \A i \in 1..Len(delta.updates) :
            \A last \in {LastFor(batch, delta.updates[i].k)} :
               /\ delta.updates[i].v =
                     _indicator_applies(
                         last, _make_indicator_type_mapping(
                                   SupportedSignalTypes, AnySetOrder))
               /\ last.should_delete => delta.updates[i].v = NoRecord
               /\ (last.threat_type = "HASH_VIDEO_MD5" /\ ~last.should_delete
                      /\ last.descriptors # <<>>) =>
                     delta.updates[i].v = from_threatexchange_json(last)

\* C15 witness: an update that adds an indicator followed by one that deletes
\* it, and the delta with None for the key
LastUpdateWinsWitness ==
    /\ delta # NoDelta
    /\ Len(batch) = 2
    /\ KeyOf(batch[1]) = <<"HASH_VIDEO_MD5", "f0">>
    /\ KeyOf(batch[2]) = <<"HASH_VIDEO_MD5", "f0">>
    /\ ~batch[1].should_delete
    /\ batch[1].descriptors # <<>>
    /\ batch[2].should_delete
    /\ delta.updates = << [k |-> <<"HASH_VIDEO_MD5", "f0">>, v |-> NoRecord] >>

----------------------------------------------------------------------------
(* from_threatexchange_json and the values of a delta *)

\* the delta fetch_iter emits for a first page that holds the parsed update
\* alone, as an update of the given type
DeltaOfParsed(threat_type) ==
    YieldDelta(FetchPage(<<>>, 0,
                         <<ThreatUpdateJSON(threat_type, "f0", 1, te_json)>>,
                         _make_indicator_type_mapping(SupportedSignalTypes,
                                                      AnySetOrder)), now)

\* C7: from_threatexchange_json returns no record for an update with
\* should_delete set, whatever its descriptors, and for one without
\* descriptors, and a record of at least one opinion otherwise; and a delta
\* of fetch_iter has no value that is a record without opinions.
NeverARecordWithoutOpinions ==
    parsed # NotRun =>
        /\ (te_json.should_delete \/ te_json.descriptors = <<>>) =>
              parsed = NoRecord
        /\ ~(te_json.should_delete \/ te_json.descriptors = <<>>) =>
              parsed.kind = "Record" /\ Len(parsed.opinions) >= 1
        /\ \A ty \in ThreatTypes :
              LET updates == DeltaOfParsed(ty).updates
              IN \A i \in 1..Len(updates) :
                    updates[i].v # NoRecord => Len(updates[i].v.opinions) >= 1

\* C7 witness: an update with descriptors, not a delete, parsed to a record
\* that is the value of its key in the delta
NeverARecordWithoutOpinionsWitness ==
    /\ parsed # NotRun
    /\ ~te_json.should_delete
    /\ Len(te_json.descriptors) = 2
    /\ parsed.kind = "Record"
    /\ DeltaOfParsed("HASH_VIDEO_MD5").updates =
          <<[k |-> <<"HASH_VIDEO_MD5", "f0">>, v |-> parsed]>>

\* the tags the supported signal types declare for the remote type (NoTag
\* for a declaration without a tag)
DeclaredTags(threat_type) ==
    {tag \in Tags \cup {NoTag} :
        \E i \in 1..Len(SupportedSignalTypes) :
            Declares(SupportedSignalTypes[i], threat_type, tag)}

\* C16: _indicator_applies gives a record for an update exactly when its
\* remote type is declared by a supported signal type, it is not a delete and
\* parses to a record of at least one opinion, and the type is declared
\* without a tag or some tag of some opinion equals a tag declared for the
\* type; the record is the parsed one, and in every other case the value is
\* None.
FetchFilterExact ==
    parsed # NotRun =>
        \A ty \in ThreatTypes :
            LET v == DeltaOfParsed(ty).updates[1].v
                applies ==
                    /\ DeclaredTags(ty) # {}
                    /\ ~te_json.should_delete
                    /\ parsed.kind = "Record"
                    /\ Len(parsed.opinions) >= 1
                    /\ \/ NoTag \in DeclaredTags(ty)
                       \/ \E i \in 1..Len(parsed.opinions) :
                             \E j \in 1..Len(parsed.opinions[i].tags) :
                                parsed.opinions[i].tags[j] \in DeclaredTags(ty)
            IN /\ v # NoRecord <=> applies
               /\ v # NoRecord => v = parsed

\* C16 witness: an update whose only tags are "a" and "xab" is a record under
\* HASH_VIDEO_MD5, declared without a tag, and None under HASH_MD5, declared
\* with the tag "ab"
FetchFilterExactWitness ==
    /\ parsed # NotRun
    /\ parsed.kind = "Record"
    /\ IndicatorTags(parsed.opinions) = {"a", "xab"}
    /\ DeltaOfParsed("HASH_VIDEO_MD5").updates[1].v = parsed
    /\ DeltaOfParsed("HASH_MD5").updates[1].v = NoRecord
    /\ DeltaOfParsed("URI").updates[1].v = NoRecord

\* C17: the opinions of a parsed record have distinct owners, also when an
\* owner has several descriptors and reactions on several descriptors.
OneOpinionPerOwner ==
    (parsed # NotRun /\ parsed.kind = "Record") =>
        \A i, j \in 1..Len(parsed.opinions) :
            parsed.opinions[i].owner = parsed.opinions[j].owner => i = j

\* C17 witness: owner 10 has two descriptors and reacted on both, owner 20
\* has none, and the record holds one opinion
OneOpinionPerOwnerWitness ==
    /\ parsed # NotRun
    /\ Len(te_json.descriptors) = 2
    /\ \A i \in 1..2 :
          /\ te_json.descriptors[i].owner = 10
          /\ Len(te_json.descriptors[i].reactions) = 1
          /\ te_json.descriptors[i].reactions[1].value = 10
          /\ te_json.descriptors[i].reactions[1].key = "HELPFUL"
    /\ parsed.kind = "Record"
    /\ Len(parsed.opinions) = 1

----------------------------------------------------------------------------
(* A sync followed by the projection of the delta it ended with *)

\* the fetched mapping and the record objects of the updates of a delta
FetchedOfDelta(d) ==
    LET vals == [i \in 1..Len(d.updates) |->
                    IF d.updates[i].v = NoRecord THEN 0 ELSE 1]
    IN [i \in 1..Len(d.updates) |->
           [k |-> d.updates[i].k, v |-> RefOf(vals, i)]]

HeapOfDelta(d) ==
    LET live == SelectSeq(d.updates, LAMBDA item : item.v # NoRecord)
    IN [r \in 1..Len(live) |-> live[r].v.opinions]

\* naive_convert_to_signal_type(supported_signal_types, delta.updates), with
\* the signal types the delta was fetched for
ProjectDelta ==
    /\ delta # NoDelta
    /\ projections < MaxProjections
    /\ \E set_order \in SetOrders(SupportedSignalTypes) :
          \E out \in {naive_convert_to_signal_type(
                          HeapOfDelta(delta), SupportedSignalTypes,
                          FetchedOfDelta(delta), set_order)} :
             /\ heap' = out.heap
             /\ ret' = out.ret
             /\ merge_log' = out.log
    /\ signal_types' = SupportedSignalTypes
    /\ fetched' = FetchedOfDelta(delta)
    /\ input_heap' = HeapOfDelta(delta)
    /\ projections' = projections + 1
    /\ UNCHANGED <<parse_vars, merge_call, fetch_vars, api_vars, stale_vars>>

\* the sync goes on until its delta is projected
SyncFetchIter == projections = 0 /\ FetchIter
SyncNextDelta == projections = 0 /\ NextDeltaUpTo(MaxBatch, MaxSyncNow)
SyncNextStop == projections = 0 /\ NextStop

NextSync == SyncFetchIter \/ SyncNextDelta \/ SyncNextStop \/ ProjectDelta

SpecSync == InitFetch /\ [][NextSync]_vars

\* C20: for the same supported signal types, every key a delta of fetch_iter
\* maps to a record is given by the projection to the output of at least one
\* signal type, and every record of the output has at least one opinion.
FetchAndProjectionAgree ==
    projections > 0 =>
        /\ \A i \in 1..Len(fetched) :
              fetched[i].v # 0 =>
                  \E st \in RangeOf(signal_types) :
                      /\ Received(i, st)
                      /\ HasOutput(st, Lower(fetched[i].k[2]))
        /\ \A e \in OutputEntries : Len(OutputOpinions(e[1], e[2])) >= 1

\* C20 witness: the delta of a HASH_MD5 update tagged "ab" and a URI update
\* was projected, and VideoMD5, which declares HASH_MD5 with that tag, was
\* given the record of the first
FetchAndProjectionAgreeWitness ==
    /\ projections > 0
    /\ Len(fetched) = 2
    /\ fetched[1].k = <<"HASH_MD5", "f0">>
    /\ fetched[1].v # 0
    /\ fetched[2].k = <<"URI", "f0">>
    /\ fetched[2].v = 0
    /\ Received(1, "VideoMD5")
    /\ Len(OutputOpinions("VideoMD5", "f0")) >= 1

----------------------------------------------------------------------------
(* Operations on the API object, with and without an app token *)

Collab == [privacy_group |-> 1]

\* everything but the outcome of the last operation
object_state == <<parse_vars, heap, merge_call, project_vars, fetch_vars,
                  _api, stale_vars>>

\* the object after FBThreatExchangeSignalExchangeAPI(fb_app_token)
InitApi ==
    /\ ParseIdle
    /\ HeapIdle
    /\ ProjectIdle
    /\ FetchIdle
    /\ StaleIdle
    /\ \E fb_app_token \in AppTokens : _api = __init__(fb_app_token)
    /\ outcome = Outcome("__init__", <<>>, Return("None"))

ResolveOwner ==
    /\ \E id \in Owners :
          outcome' = Outcome("resolve_owner", <<id>>, resolve_owner(_api, id))
    /\ UNCHANGED object_state

GetOwnOwnerId ==
    /\ outcome' = Outcome("get_own_owner_id", <<>>,
                          get_own_owner_id(_api, Collab))
    /\ UNCHANGED object_state

ReportSeen ==
    /\ \E s_type \in SignalTypeNames :
          outcome' = Outcome("report_seen", <<s_type, "f0">>,
                             report_seen(_api, Collab, s_type, "f0",
                                         Record(RecordValues[1])))
    /\ UNCHANGED object_state

ReportOpinion ==
    /\ \E s_type \in SignalTypeNames,
          category \in {POSITIVE_CLASS, NEGATIVE_CLASS} :
          outcome' = Outcome("report_opinion", <<s_type, "f0", category>>,
                             report_opinion(_api, Collab, s_type, "f0",
                                            SignalOpinion(10, category, {})))
    /\ UNCHANGED object_state

ReportTruePositive ==
    /\ \E s_type \in SignalTypeNames :
          outcome' = Outcome("report_true_positive", <<s_type, "f0">>,
                             report_true_positive(_api, Collab, s_type, "f0",
                                                  Record(RecordValues[1])))
    /\ UNCHANGED object_state

ReportFalsePositive ==
    /\ \E s_type \in SignalTypeNames :
          outcome' = Outcome("report_false_positive", <<s_type, "f0">>,
                             report_false_positive(_api, Collab, s_type, "f0",
                                                   Record(RecordValues[1])))
    /\ UNCHANGED object_state

\* next(gen) on a collaboration whose cursor delivers at most MaxApiBatch
\* updates in all
ApiNextDelta == NextDeltaUpTo(MaxApiBatch, MaxApiNow)

NextApi ==
    \/ ResolveOwner
    \/ GetOwnOwnerId
    \/ ReportSeen
    \/ ReportOpinion
    \/ ReportTruePositive
    \/ ReportFalsePositive
    \/ FetchIter
    \/ ApiNextDelta
    \/ NextStop
    \/ NextRaise

SpecApi == InitApi /\ [][NextApi]_vars

WritePathOps == {"report_seen", "report_opinion", "resolve_owner"}

\* C12: report_seen, report_opinion and resolve_owner always end by raising
\* NotImplementedError, for every argument and with or without an app token,
\* and a call of one of them changes nothing of the object or of a fetch in
\* progress.
WritePathNotImplemented ==
    /\ [](outcome.op \in WritePathOps =>
            outcome.result = Raise(NotImplementedError))
    /\ [][outcome'.op \in WritePathOps => UNCHANGED object_state]_vars

\* C12 witness: report_seen called on an object without an app token ended
\* with NotImplementedError
WritePathNotImplementedWitness ==
    /\ _api = NoApi
    /\ outcome.op = "report_seen"
    /\ outcome.result = Raise(NotImplementedError)

ClientOps == {"next", "get_own_owner_id", "report_true_positive",
              "report_false_positive"}

\* C13: construction succeeds with or without an app token, and so does the
\* call of fetch_iter; the configuration error is raised by the operations
\* that use the client (the first next of the generator, get_own_owner_id,
\* report_true_positive, report_false_positive) when no token was given, by
\* nothing else (a next of the generator the error has finished stops the
\* iteration), and never when a token was given.
ConfigErrorRaisedLazily ==
    /\ [](outcome.op \in {"__init__", "fetch_iter"} =>
             outcome.result.kind = "Return")
    /\ [](outcome.result = Raise(ConfigError) =>
             _api = NoApi /\ outcome.op \in ClientOps)
    /\ []((_api = NoApi /\ outcome.op \in ClientOps \ {"next"}) =>
             outcome.result = Raise(ConfigError))
    /\ [][(_api = NoApi /\ gen = "created" /\ outcome'.op = "next") =>
             outcome'.result = Raise(ConfigError)]_vars
    /\ [][(gen = "finished" /\ outcome'.op = "next") =>
             outcome'.result = Raise("StopIteration")]_vars

\* C13 witness: on an object constructed without a token, the generator of
\* fetch_iter was created and its first next raised the configuration error
ConfigErrorRaisedLazilyWitness ==
    /\ _api = NoApi
    /\ gen = "finished"
    /\ outcome = Outcome("next", <<>>, Raise(ConfigError))

----------------------------------------------------------------------------
(* FBThreatExchangeCheckpoint.is_stale *)

\* 85 days, in seconds
StaleSeconds == 3600 * 24 * 85

\* is_stale that counts the 85th day's last instant as stale
is_stale_Inclusive(now_, last_fetch_time_) ==
    now_ - last_fetch_time_ * TicksPerSecond >= StaleSeconds * TicksPerSecond

\* time.time() - self.last_fetch_time > 3600 * 24 * 85, with the time of the
\* call in ticks and last_fetch_time in whole seconds
is_stale(now_, last_fetch_time_) ==
    now_ - last_fetch_time_ * TicksPerSecond > StaleSeconds * TicksPerSecond

\* the ages, in ticks, at which the checkpoint is looked at: the first
\* ticks, and the ticks around 85 days
Ages ==
    0..MaxAgeDelta \cup
    (StaleSeconds * TicksPerSecond - MaxAgeDelta)..
        (StaleSeconds * TicksPerSecond + MaxAgeDelta)

\* a checkpoint just constructed, at any tick of the first seconds:
\* last_fetch_time is int(time.time())
InitStale ==
    /\ ParseIdle
    /\ HeapIdle
    /\ ProjectIdle
    /\ FetchIdle
    /\ ApiIdle
    /\ \E t \in 0..MaxLastFetchTime :
          /\ now = t
          /\ last_fetch_time = FBThreatExchangeCheckpoint(0, t).last_fetch_time
    /\ stale = NotRun

\* time passes
Wait ==
    /\ \E age \in Ages :
          /\ last_fetch_time * TicksPerSecond + age > now
          /\ now' = last_fetch_time * TicksPerSecond + age
    /\ UNCHANGED <<parse_vars, heap, merge_call, project_vars, fetch_vars,
                   api_vars, last_fetch_time, stale>>

\* checkpoint.is_stale()
IsStale ==
    /\ stale' = [kind |-> "Return", at |-> now,
                 value |-> is_stale(now, last_fetch_time)]
    /\ UNCHANGED <<parse_vars, heap, merge_call, project_vars, fetch_vars,
                   api_vars, now, last_fetch_time>>

NextStale == Wait \/ IsStale

SpecStale == InitStale /\ [][NextStale]_vars

\* C11: is_stale returns true exactly when the time of the call minus
\* last_fetch_time is more than 85*86400 seconds: true at 85*86400 + 1,
\* false at 85*86400 and below. The age is counted in ticks from the whole
\* second last_fetch_time holds.
StaleAfter85Days ==
    stale # NotRun =>
        LET age == stale.at - last_fetch_time * TicksPerSecond
        IN /\ stale.value <=> age > 85 * 86400 * TicksPerSecond
           /\ age = (85 * 86400 + 1) * TicksPerSecond => stale.value
           /\ age <= 85 * 86400 * TicksPerSecond => ~stale.value

\* C11 witness: is_stale called 85*86400 + 1 seconds after the last fetch
\* returned true, for a checkpoint constructed within a second, not at its
\* start
StaleAfter85DaysWitness ==
    /\ stale # NotRun
    /\ stale.at - last_fetch_time * TicksPerSecond
          = (85 * 86400 + 1) * TicksPerSecond
    /\ stale.value
    /\ last_fetch_time > 0

====
